---- MODULE Spec2Model ----
(***************************************************************************)
(* Model of .config/waybar/network_speed.py: the interface resolver, the   *)
(* counter reader, the speed formatter and the sampling loop of main().    *)
(*                                                                         *)
(* Python floats are modelled as exact rationals (a sign, an unbounded     *)
(* numerator and a list of divisors), so that magnitudes beyond 1024^5 can *)
(* be formatted; IEEE rounding of the quotients is not modelled.  Strings  *)
(* are written as json.dumps writes them (ensure_ascii): the arrows and    *)
(* the em-dash appear as \uXXXX escapes.                                   *)
(***************************************************************************)
EXTENDS Integers, Sequences, FiniteSets, TLC

VARIABLES
    pc,         \* position of main(): the line it executes next
    RUNNING,    \* the module-level stop flag (line 17)
    si,         \* args.si
    iface,      \* the interface main() monitors (line 104)
    clock,      \* the reading time.monotonic() gives, in ticks
    prev_rx, prev_tx, prev_time,   \* the retained previous reading
    now, rx, tx,                   \* the reading of the cycle in flight
    dt, down_bps, up_bps,          \* the rates of the cycle in flight
    out,        \* the records handed to json.dumps and written to stdout
    cycles,     \* completed sampling cycles
    stop_len,   \* history: the records written when RUNNING was cleared
    arg,        \* the inputs of the call under examination (pure-function specs)
    ret         \* what that call returned

vars == <<pc, RUNNING, si, iface, clock, prev_rx, prev_tx, prev_time,
          now, rx, tx, dt, down_bps, up_bps, out, cycles, stop_len, arg, ret>>

\* Python's None, and an int object; both are records, so that either can be
\* compared with the other and with a float
None == [none |-> TRUE]

PyInt(n) == [int |-> n]

PyStr(s) == [str |-> s]

\* a reading of time.monotonic(), in clock ticks
MonoTime(n) == [ticks |-> n]

\* truth value of an optional string: None and "" are falsy
Truthy(v) == v # None /\ v # PyStr("")

\* outcome of a call: a returned value, or an exception that propagates
Returned(v) == [raised |-> FALSE, value |-> v]

Raised == [raised |-> TRUE]

-----------------------------------------------------------------------------
(* Unbounded naturals: little-endian sequences of decimal digits, without   *)
(* leading zeros; <<>> is 0.  They carry the integer arithmetic of Python.  *)

RECURSIVE BigFromNat(_)
BigFromNat(n) ==
    IF n = 0 THEN <<>> ELSE <<n % 10>> \o BigFromNat(n \div 10)

RECURSIVE BigToNat(_)
BigToNat(a) ==
    IF a = <<>> THEN 0 ELSE Head(a) + 10 * BigToNat(Tail(a))

RECURSIVE MulCarry(_, _, _)
MulCarry(a, m, c) ==
    IF a = <<>> THEN BigFromNat(c)
    ELSE LET t == Head(a) * m + c
         IN  <<t % 10>> \o MulCarry(Tail(a), m, t \div 10)

BigMul(a, m) == IF m = 0 THEN <<>> ELSE MulCarry(a, m, 0)

RECURSIVE BigMulAll(_, _)
BigMulAll(a, ms) ==
    IF ms = <<>> THEN a ELSE BigMulAll(BigMul(a, Head(ms)), Tail(ms))

\* quotient and remainder of a by the small divisor m
RECURSIVE BigDivRem(_, _)
BigDivRem(a, m) ==
    IF a = <<>> THEN [q |-> <<>>, r |-> 0]
    ELSE LET hi  == BigDivRem(Tail(a), m)
             cur == hi.r * 10 + Head(a)
         IN  [q |-> IF hi.q = <<>> /\ cur \div m = 0 THEN <<>>
                    ELSE <<cur \div m>> \o hi.q,
              r |-> cur % m]

\* floor(a / product of ms), and whether the division was exact
RECURSIVE BigDivAll(_, _)
BigDivAll(a, ms) ==
    IF ms = <<>> THEN [q |-> a, exact |-> TRUE]
    ELSE LET one  == BigDivRem(a, Head(ms))
             rest == BigDivAll(one.q, Tail(ms))
         IN  [q |-> rest.q, exact |-> rest.exact /\ one.r = 0]

\* -1, 0, 1 as a < b, a = b, a > b
RECURSIVE BigCmpSameLen(_, _)
BigCmpSameLen(a, b) ==
    IF a = <<>> THEN 0
    ELSE LET n == Len(a)
         IN  IF a[n] < b[n] THEN -1
             ELSE IF a[n] > b[n] THEN 1
             ELSE BigCmpSameLen(SubSeq(a, 1, n - 1), SubSeq(b, 1, n - 1))

BigCmp(a, b) ==
    IF Len(a) < Len(b) THEN -1
    ELSE IF Len(a) > Len(b) THEN 1
    ELSE BigCmpSameLen(a, b)

RECURSIVE BigSucc(_)
BigSucc(a) ==
    IF a = <<>> THEN <<1>>
    ELSE IF Head(a) < 9 THEN <<Head(a) + 1>> \o Tail(a)
    ELSE <<0>> \o BigSucc(Tail(a))

BigIsOdd(a) == a # <<>> /\ Head(a) % 2 = 1

Digit == <<"0", "1", "2", "3", "4", "5", "6", "7", "8", "9">>

\* the decimal digits of a, most significant first ("" for 0)
RECURSIVE BigDigits(_)
BigDigits(a) ==
    IF a = <<>> THEN "" ELSE BigDigits(Tail(a)) \o Digit[Head(a) + 1]

\* str(n) of a Python int
IntToStr(n) ==
    IF n = 0 THEN "0"
    ELSE IF n < 0 THEN "-" \o BigDigits(BigFromNat(-n))
    ELSE BigDigits(BigFromNat(n))

-----------------------------------------------------------------------------
(* Python floats as exact rationals: (-1)^neg * num / product(den).  A      *)
(* negative zero keeps its sign bit, as in IEEE arithmetic.                 *)

FloatOfInt(n) ==
    [neg |-> n < 0, num |-> BigFromNat(IF n < 0 THEN -n ELSE n), den |-> <<>>]

FloatIsZero(v) == v.num = <<>>

\* v < 0
FloatNegative(v) == v.neg /\ ~FloatIsZero(v)

\* -v
FloatNeg(v) == [v EXCEPT !.neg = ~@]

\* abs(v)
FloatAbs(v) == [v EXCEPT !.neg = FALSE]

\* -1, 0, 1 as |a| < |b|, |a| = |b|, |a| > |b|
FloatCmpAbs(a, b) == BigCmp(BigMulAll(a.num, b.den), BigMulAll(b.num, a.den))

\* -1, 0, 1 as a < b, a = b, a > b
FloatCmp(a, b) ==
    IF FloatNegative(a)
    THEN IF FloatNegative(b) THEN FloatCmpAbs(b, a) ELSE -1
    ELSE IF FloatNegative(b) THEN 1 ELSE FloatCmpAbs(a, b)

\* v / m for a positive int m
FloatDivInt(v, m) == [v EXCEPT !.den = Append(@, m)]

\* a / b for a positive b whose numerator is small
FloatDiv(a, b) ==
    [neg |-> a.neg,
     num |-> BigMulAll(a.num, b.den),
     den |-> Append(a.den, BigToNat(b.num))]

\* max(a, b) of Python: b only when b > a
FloatMax(a, b) == IF FloatCmp(b, a) > 0 THEN b ELSE a

RECURSIVE PadZeros(_, _)
PadZeros(s, n) == IF Len(s) >= n THEN s ELSE PadZeros("0" \o s, n)

\* f"{v:.0f}", f"{v:.1f}", f"{v:.2f}" for v >= 0: the decimal expansion of v
\* rounded to p places, a tie going to the even neighbour
FormatFixed(v, p) ==
    LET scale   == IF p = 0 THEN 1 ELSE IF p = 1 THEN 10 ELSE 100
        halves  == BigDivAll(BigMul(v.num, 2 * scale), v.den)
        floorq  == BigDivRem(halves.q, 2).q
        rounded == IF ~BigIsOdd(halves.q) THEN floorq
                   ELSE IF ~halves.exact THEN BigSucc(floorq)
                   ELSE IF BigIsOdd(floorq) THEN BigSucc(floorq) ELSE floorq
        padded  == PadZeros(BigDigits(rounded), p + 1)
        n       == Len(padded)
    IN  IF p = 0 THEN padded
        ELSE SubSeq(padded, 1, n - p) \o "." \o SubSeq(padded, n - p + 1, n)

-----------------------------------------------------------------------------
(* format_speed (lines 71-90)                                               *)

NoData == "\\u2014"

UnitBase(use_si) == IF use_si THEN 1000 ELSE 1024

Units(use_si) ==
    IF use_si THEN <<"B/s", "KB/s", "MB/s", "GB/s", "TB/s">>
    ELSE <<"B/s", "KiB/s", "MiB/s", "GiB/s", "TiB/s">>

\* a variant of MoreUnits that stops one unit short of the largest
MoreUnitsButLast(unit, units) == unit < Len(units) - 2

\* whether a larger unit remains after the 0-based index unit (line 81)
MoreUnits(unit, units) == unit < Len(units) - 1

\* the while loop of lines 81-83: the scaled value and the 0-based unit index
RECURSIVE ScaleToUnit(_, _, _, _)
ScaleToUnit(bps, base, unit, units) ==
    IF FloatCmp(bps, FloatOfInt(base)) >= 0 /\ MoreUnits(unit, units)
    THEN ScaleToUnit(FloatDivInt(bps, base), base, unit + 1, units)
    ELSE [bps |-> bps, unit |-> unit]

\* the precision tiers of lines 84-89
FormatTier(bps, unitname) ==
    IF FloatCmp(bps, FloatOfInt(100)) >= 0
    THEN FormatFixed(bps, 0) \o " " \o unitname
    ELSE IF FloatCmp(bps, FloatOfInt(10)) >= 0
    THEN FormatFixed(bps, 1) \o " " \o unitname
    ELSE FormatFixed(bps, 2) \o " " \o unitname

\* a variant of WithSign that drops the sign
WithoutSign(neg, s) == s

\* line 90
WithSign(neg, s) == IF neg THEN "-" \o s ELSE s

format_speed(bps, use_si) ==
    IF bps = None THEN NoData
    ELSE LET base   == UnitBase(use_si)
             units  == Units(use_si)
             neg    == FloatNegative(bps)
             scaled == ScaleToUnit(FloatAbs(bps), base, 0, units)
             s      == FormatTier(scaled.bps, units[scaled.unit + 1])
         IN  WithSign(neg, s)

-----------------------------------------------------------------------------
(* get_default_iface (lines 26-55).  What the operating system answers is   *)
(* the input: route is the decoded output of `ip route get 1.1.1.1`, or     *)
(* Failed when check_output raises; ls1 and ls2 are the two results of      *)
(* os.listdir('/sys/class/net') (lines 40 and 52), each a list of names or  *)
(* Failed; oper[i] is the stripped content of i's operstate file, or Failed *)
(* when it cannot be opened or read.                                        *)

Failed == [failed |-> TRUE]

\* the text a command printed, as its sequence of whitespace-separated words
Output(words) == [words |-> words]

\* a list of names
PyList(names) == [names |-> names]

\* re.search(r'dev\s+(\S+)', out) on the words of out: the word after the
\* first word "dev", or None
RECURSIVE SearchDev(_)
SearchDev(words) ==
    IF Len(words) < 2 THEN None
    ELSE IF words[1] = "dev" THEN PyStr(words[2])
    ELSE SearchDev(Tail(words))

\* lines 40-48: the first name that is not 'lo' and whose operstate reads 'up'
RECURSIVE FirstUp(_, _)
FirstUp(names, oper) ==
    IF names = <<>> THEN None
    ELSE IF Head(names) # "lo" /\ oper[Head(names)] = PyStr("up")
    THEN PyStr(Head(names))
    ELSE FirstUp(Tail(names), oper)

\* lines 52-54: the first name that is not 'lo'
RECURSIVE FirstNonLoopback(_)
FirstNonLoopback(names) ==
    IF names = <<>> THEN None
    ELSE IF Head(names) # "lo" THEN PyStr(Head(names))
    ELSE FirstNonLoopback(Tail(names))

\* lines 51-55, outside any try: a failing listdir propagates
FinalFallback(ls2) ==
    IF ls2 = Failed THEN Raised
    ELSE IF FirstNonLoopback(ls2.names) # None
    THEN Returned(FirstNonLoopback(ls2.names).str)
    ELSE Returned("lo")

get_default_iface(route, ls1, ls2, oper) ==
    LET m  == IF route = Failed THEN None ELSE SearchDev(route.words)
        up == IF ls1 = Failed THEN None ELSE FirstUp(ls1.names, oper)
    IN  IF m # None THEN Returned(m.str)
        ELSE IF up # None THEN Returned(up.str)
        ELSE FinalFallback(ls2)

\* lines 104-105: args.iface or os.getenv(...) or get_default_iface()
ResolveIface(arg_iface, env_iface, route, ls1, ls2, oper) ==
    IF Truthy(arg_iface) THEN Returned(arg_iface.str)
    ELSE IF Truthy(env_iface) THEN Returned(env_iface.str)
    ELSE get_default_iface(route, ls1, ls2, oper)

-----------------------------------------------------------------------------
(* read_stats (lines 58-68).  rx_file and tx_file are what opening and      *)
(* parsing the two counter files gives: an int, or Failed.                  *)

read_stats(rx_file, tx_file) ==
    IF rx_file = Failed \/ tx_file = Failed THEN <<None, None>>
    ELSE <<rx_file, tx_file>>

-----------------------------------------------------------------------------
(* Bounds of the model and the inputs drawn from them                       *)

MaxCycles == 2      \* sampling cycles a run of the model completes
MaxStep == 2        \* ticks the clock reading advances during one sleep
TicksPerSec == 2    \* clock ticks per second of time.monotonic()

\* counter values the statistics files hold during a run of main()
RxCounts == {1000, 2024}

TxCounts == {500}

RxFiles == {PyInt(n) : n \in RxCounts} \cup {Failed}

TxFiles == {PyInt(n) : n \in TxCounts} \cup {Failed}

\* counter values of the single cycle examined on its own; their differences
\* over one second sit on and next to the three thresholds
RxCycleCounts ==
    {0, 1, 1000, 2024, 100 * 1024 + 1, 1024 * 1024 + 1, 10 * 1024 * 1024 + 1}

TxCycleCounts == {500, 2 * 1024 * 1024 + 500}

\* what read_stats can return for one cycle
CycleReadings ==
    {read_stats(r, t) :
        r \in {PyInt(n) : n \in RxCycleCounts} \cup {Failed},
        t \in {PyInt(n) : n \in TxCycleCounts} \cup {Failed}}

IfaceNames == {"eth0", "wlan0"}

\* -i/--iface and $WAYBAR_NETWORK_IFACE: absent, empty, or a name
OptionalNames == {None, PyStr("")} \cup {PyStr(n) : n \in IfaceNames}

RouteOutputs ==
    {Failed, Output(<<"RTNETLINK", "answers:", "unreachable">>)}
    \cup {Output(<<"1.1.1.1", "via", "10.0.0.1", "dev", n, "src", "10.0.0.2">>) :
            n \in IfaceNames}

Listings ==
    {Failed, PyList(<<>>), PyList(<<"lo">>), PyList(<<"lo", "eth0">>),
     PyList(<<"lo", "wlan0", "eth0">>), PyList(<<"eth0", "lo", "wlan0">>)}

OperStates == [IfaceNames -> {PyStr("up"), PyStr("down"), Failed}]

-----------------------------------------------------------------------------
(* main (lines 93-159)                                                      *)

down_arrow == "\\u2193"

up_arrow == "\\u2191"

\* lines 114 and 124
Placeholder == down_arrow \o " " \o NoData \o "   " \o up_arrow \o " " \o NoData

\* a span of k clock ticks as a float number of seconds
Seconds(k) == [neg |-> FALSE, num |-> BigFromNat(k), den |-> <<TicksPerSec>>]

\* a variant of Elapsed without the guard of line 133
ElapsedUnguarded(t_now, t_prev) == Seconds(t_now.ticks - t_prev.ticks)

\* line 133
Elapsed(t_now, t_prev) ==
    IF t_now.ticks > t_prev.ticks THEN Seconds(t_now.ticks - t_prev.ticks)
    ELSE FloatOfInt(1)

\* a variant of Severity whose upper boundary is inclusive
SeverityInclusive(peak) ==
    IF FloatCmp(peak, FloatOfInt(10 * 1024 * 1024)) >= 0 THEN "critical"
    ELSE IF FloatCmp(peak, FloatOfInt(1 * 1024 * 1024)) > 0 THEN "high"
    ELSE IF FloatCmp(peak, FloatOfInt(100 * 1024)) > 0 THEN "medium"
    ELSE "normal"

\* lines 143-151
Severity(peak) ==
    IF FloatCmp(peak, FloatOfInt(10 * 1024 * 1024)) > 0 THEN "critical"
    ELSE IF FloatCmp(peak, FloatOfInt(1 * 1024 * 1024)) > 0 THEN "high"
    ELSE IF FloatCmp(peak, FloatOfInt(100 * 1024)) > 0 THEN "medium"
    ELSE "normal"

\* lines 153-154, the backslash of the source's \\n escaped once more by
\* json.dumps
Tooltip(name, r, t, d) ==
    "iface: " \o name.str \o "\\\\nrx: " \o IntToStr(r.int) \o " tx: "
        \o IntToStr(t.int) \o "\\\\ninterval: " \o FormatFixed(d, 2) \o "s"

\* a variant of DisconnectedRecord that reports the failure as an idle link
DisconnectedAsNormal(name) ==
    [text |-> down_arrow \o " 0.00 B/s   " \o up_arrow \o " 0.00 B/s",
     class |-> "normal", tooltip |-> "iface=" \o name.str]

\* lines 124-126
DisconnectedRecord(name) ==
    [text |-> Placeholder, class |-> "disconnected",
     tooltip |-> "iface=" \o name.str]

\* lines 139-155
SampleRecord(name, use_si, r, t, d, down, up) ==
    [text    |-> down_arrow \o " " \o format_speed(down, use_si) \o "   "
                    \o up_arrow \o " " \o format_speed(up, use_si),
     class   |-> Severity(FloatMax(down, up)),
     tooltip |-> Tooltip(name, r, t, d)]

\* a variant of StartupRecord that carries a class
StartupWithClass == [text |-> Placeholder, class |-> "disconnected"]

\* line 114
StartupRecord == [text |-> Placeholder]

\* line 123
ReadingMissing(r, t, prev_r) == r = None \/ t = None \/ prev_r = None

Init ==
    /\ pc = "resolve"
    /\ RUNNING = TRUE
    /\ si \in BOOLEAN
    /\ iface = None
    /\ clock = 0
    /\ prev_rx = None /\ prev_tx = None /\ prev_time = None
    /\ now = None /\ rx = None /\ tx = None
    /\ dt = None /\ down_bps = None /\ up_bps = None
    /\ out = <<>>
    /\ cycles = 0
    /\ stop_len = 0
    /\ arg = None /\ ret = None

\* lines 18-20, delivered between any two steps of main()
HandleSig ==
    /\ pc \notin {"done", "raised"}
    /\ RUNNING' = FALSE
    /\ stop_len' = IF RUNNING THEN Len(out) ELSE stop_len
    /\ UNCHANGED <<pc, si, iface, clock, prev_rx, prev_tx, prev_time, now, rx,
                   tx, dt, down_bps, up_bps, out, cycles, arg, ret>>

\* lines 104-105
Resolve ==
    /\ pc = "resolve"
    /\ \E a \in OptionalNames, e \in OptionalNames, route \in RouteOutputs,
          ls1 \in Listings, ls2 \in Listings, oper \in OperStates :
          LET r == ResolveIface(a, e, route, ls1, ls2, oper)
          IN  IF r.raised
              THEN pc' = "raised" /\ iface' = iface
              ELSE pc' = "read0" /\ iface' = PyStr(r.value)
    /\ UNCHANGED <<RUNNING, si, clock, prev_rx, prev_tx, prev_time, now, rx,
                   tx, dt, down_bps, up_bps, out, cycles, arg, ret,
                   stop_len>>

\* lines 110-111
ReadStartup ==
    /\ pc = "read0"
    /\ \E rx_file \in RxFiles, tx_file \in TxFiles :
          /\ prev_rx' = read_stats(rx_file, tx_file)[1]
          /\ prev_tx' = read_stats(rx_file, tx_file)[2]
    /\ prev_time' = MonoTime(clock)
    /\ pc' = "emit0"
    /\ UNCHANGED <<RUNNING, si, iface, clock, now, rx, tx, dt, down_bps,
                   up_bps, out, cycles, arg, ret,
                   stop_len>>

\* lines 113-116
EmitInitial ==
    /\ pc = "emit0"
    /\ out' = Append(out, StartupRecord)
    /\ pc' = "head"
    /\ UNCHANGED <<RUNNING, si, iface, clock, prev_rx, prev_tx, prev_time, now,
                   rx, tx, dt, down_bps, up_bps, cycles, arg, ret,
                   stop_len>>

\* a variant of LoopTest that ignores the flag
LoopForever(running) == TRUE

\* line 118, the loop's test
LoopTest(running) == running

\* line 118
LoopHead ==
    /\ pc = "head"
    /\ IF LoopTest(RUNNING)
       THEN cycles < MaxCycles /\ pc' = "sleep"
       ELSE pc' = "done"
    /\ UNCHANGED <<RUNNING, si, iface, clock, prev_rx, prev_tx, prev_time, now,
                   rx, tx, dt, down_bps, up_bps, out, cycles, arg, ret,
                   stop_len>>

\* line 119: the sleep returns, the clock reading having advanced by d ticks
\* (by none when the clock is coarser than the sleep)
Sleep ==
    /\ pc = "sleep"
    /\ \E d \in 0..MaxStep : clock' = clock + d
    /\ pc' = "read"
    /\ UNCHANGED <<RUNNING, si, iface, prev_rx, prev_tx, prev_time, now, rx,
                   tx, dt, down_bps, up_bps, out, cycles, arg, ret,
                   stop_len>>

\* lines 120-121
ReadCycle ==
    /\ pc = "read"
    /\ now' = MonoTime(clock)
    /\ \E rx_file \in RxFiles, tx_file \in TxFiles :
          /\ rx' = read_stats(rx_file, tx_file)[1]
          /\ tx' = read_stats(rx_file, tx_file)[2]
    /\ pc' = "branch"
    /\ UNCHANGED <<RUNNING, si, iface, clock, prev_rx, prev_tx, prev_time, dt,
                   down_bps, up_bps, out, cycles, arg, ret,
                   stop_len>>

\* a variant of AdvanceWindow that keeps the window of a failed read
AdvanceUnlessFailed(r, t, n) ==
    IF r = None THEN <<prev_rx, prev_tx, prev_time>> ELSE <<r, t, n>>

\* lines 129-130 and 159: the window the loop retains after a cycle
AdvanceWindow(r, t, n) == <<r, t, n>>

\* lines 123-131
EmitDisconnected ==
    /\ pc = "branch"
    /\ ReadingMissing(rx, tx, prev_rx)
    /\ out' = Append(out, DisconnectedRecord(iface))
    /\ LET w == AdvanceWindow(rx, tx, now)
       IN  prev_rx' = w[1] /\ prev_tx' = w[2] /\ prev_time' = w[3]
    /\ cycles' = cycles + 1
    /\ pc' = "head"
    /\ UNCHANGED <<RUNNING, si, iface, clock, now, rx, tx, dt, down_bps,
                   up_bps, arg, ret,
                   stop_len>>

\* lines 133-137
ComputeRates ==
    /\ pc = "branch"
    /\ ~ReadingMissing(rx, tx, prev_rx)
    /\ dt' = Elapsed(now, prev_time)
    /\ IF FloatIsZero(dt')
       THEN \* ZeroDivisionError at line 134
            pc' = "raised" /\ UNCHANGED <<down_bps, up_bps>>
       ELSE /\ down_bps' = FloatDiv(FloatOfInt(rx.int - prev_rx.int), dt')
            /\ up_bps' = FloatDiv(FloatOfInt(tx.int - prev_tx.int), dt')
            /\ pc' = "format"
    /\ UNCHANGED <<RUNNING, si, iface, clock, prev_rx, prev_tx, prev_time, now,
                   rx, tx, out, cycles, arg, ret,
                   stop_len>>

\* lines 139-159
EmitSample ==
    /\ pc = "format"
    /\ out' = Append(out, SampleRecord(iface, si, rx, tx, dt, down_bps, up_bps))
    /\ LET w == AdvanceWindow(rx, tx, now)
       IN  prev_rx' = w[1] /\ prev_tx' = w[2] /\ prev_time' = w[3]
    /\ cycles' = cycles + 1
    /\ pc' = "head"
    /\ UNCHANGED <<RUNNING, si, iface, clock, now, rx, tx, dt, down_bps,
                   up_bps, arg, ret,
                   stop_len>>

\* the steps of main()
MainStep ==
    \/ Resolve
    \/ ReadStartup
    \/ EmitInitial
    \/ LoopHead
    \/ Sleep
    \/ ReadCycle
    \/ EmitDisconnected
    \/ ComputeRates
    \/ EmitSample

Next == MainStep \/ HandleSig

Spec == Init /\ [][Next]_vars

\* the positions of main()
Positions ==
    {"resolve", "read0", "emit0", "head", "sleep", "read", "branch", "format",
     "done", "raised"}

\* main() has a step to take: it has not ended, and the loop is within the
\* bound on the cycles explored
MainCanStep ==
    /\ pc \notin {"done", "raised"}
    /\ (pc = "head" /\ LoopTest(RUNNING)) => cycles < MaxCycles

\* the steps that move pc are exactly the steps of main(): a signal leaves
\* main() where it is
PcMovesByMainStep == [][(pc' # pc) <=> MainStep]_vars

\* main() is the only thread: whenever it has a step to take it takes one,
\* that is, its position moves
LiveSpec == Spec /\ WF_pc(MainCanStep /\ pc' \in Positions)

-----------------------------------------------------------------------------
(* One sampling cycle on its own, from line 123 on: the loop has read the   *)
(* counters of the first cycle, and the readings range over CycleReadings.  *)

InitCycle ==
    /\ pc = "branch"
    /\ RUNNING = TRUE
    /\ si \in BOOLEAN
    /\ iface \in {PyStr(n) : n \in IfaceNames}
    /\ \E prev \in CycleReadings : prev_rx = prev[1] /\ prev_tx = prev[2]
    /\ \E cur \in CycleReadings : rx = cur[1] /\ tx = cur[2]
    /\ \E t \in 0..MaxStep, d \in 0..MaxStep :
          prev_time = MonoTime(t) /\ now = MonoTime(t + d) /\ clock = t + d
    /\ dt = None /\ down_bps = None /\ up_bps = None
    /\ out = <<StartupRecord>>
    /\ cycles = 0
    /\ stop_len = 0
    /\ arg = None /\ ret = None

CycleStep ==
    \/ EmitDisconnected
    \/ ComputeRates
    \/ EmitSample

SpecCycle == InitCycle /\ [][CycleStep]_vars

-----------------------------------------------------------------------------
(* The interface resolution of lines 104-105 on its own: arg holds the      *)
(* command-line and environment names and what the operating system         *)
(* answers, ret what the resolution gives.                                  *)

Idle ==
    /\ RUNNING = TRUE /\ si = FALSE /\ iface = None /\ clock = 0
    /\ prev_rx = None /\ prev_tx = None /\ prev_time = None
    /\ now = None /\ rx = None /\ tx = None
    /\ dt = None /\ down_bps = None /\ up_bps = None
    /\ out = <<>> /\ cycles = 0 /\ stop_len = 0

InitResolve ==
    /\ pc = "call"
    /\ arg \in [arg_iface : OptionalNames, env_iface : OptionalNames,
                route : RouteOutputs, ls1 : Listings, ls2 : Listings,
                oper : OperStates]
    /\ ret = None
    /\ Idle

CallResolve ==
    /\ pc = "call"
    /\ ret' = ResolveIface(arg.arg_iface, arg.env_iface, arg.route, arg.ls1,
                           arg.ls2, arg.oper)
    /\ pc' = IF ret'.raised THEN "raised" ELSE "returned"
    /\ UNCHANGED <<RUNNING, si, iface, clock, prev_rx, prev_tx, prev_time, now,
                   rx, tx, dt, down_bps, up_bps, out, cycles, arg,
                   stop_len>>

SpecResolve == InitResolve /\ [][CallResolve]_vars

-----------------------------------------------------------------------------
(* format_speed on its own: arg holds a rate x >= 0 (or None) and the unit  *)
(* system, ret the texts format_speed gives for x and for -x.               *)

MaxExp == 6         \* largest power of the base the formatted rates reach

Mantissas == {0, 1, 5, 10, 99, 100, 999, 1000, 1023, 1024}

\* m * b^e / d
Scaled(m, b, e, d) ==
    [neg |-> FALSE,
     num |-> BigMulAll(BigFromNat(m), [i \in 1..e |-> b]),
     den |-> IF d = 1 THEN <<>> ELSE <<d>>]

FormatInputs ==
    {Scaled(m, b, e, d) :
        m \in Mantissas, b \in {1000, 1024}, e \in 0..MaxExp, d \in {1, 8}}

InitFormat ==
    /\ pc = "call"
    /\ arg \in [bps : FormatInputs \cup {None}, si : BOOLEAN]
    /\ ret = None
    /\ Idle

CallFormat ==
    /\ pc = "call"
    /\ arg.bps # None
    /\ ret' = [text    |-> format_speed(arg.bps, arg.si),
               negated |-> format_speed(FloatNeg(arg.bps), arg.si)]
    /\ pc' = "returned"
    /\ UNCHANGED <<RUNNING, si, iface, clock, prev_rx, prev_tx, prev_time, now,
                   rx, tx, dt, down_bps, up_bps, out, cycles, arg,
                   stop_len>>

CallFormatNoData ==
    /\ pc = "call"
    /\ arg.bps = None
    /\ ret' = [text |-> format_speed(arg.bps, arg.si)]
    /\ pc' = "returned"
    /\ UNCHANGED <<RUNNING, si, iface, clock, prev_rx, prev_tx, prev_time, now,
                   rx, tx, dt, down_bps, up_bps, out, cycles, arg,
                   stop_len>>

NextFormat == CallFormat \/ CallFormatNoData

SpecFormat == InitFormat /\ [][NextFormat]_vars

-----------------------------------------------------------------------------
(* Properties                                                               *)

Last(seq) == seq[Len(seq)]

EndsWith(s, suffix) ==
    /\ Len(s) >= Len(suffix)
    /\ SubSeq(s, Len(s) - Len(suffix) + 1, Len(s)) = suffix

InLoop == pc \in {"head", "sleep", "read", "branch", "format"}

\* C1: a cycle whose read failed, or whose retained previous reading is a
\* failure (a failed startup read included), emits exactly one record with
\* the placeholder text, class 'disconnected' and a tooltip naming the
\* interface, and goes back to the loop head; it never raises or stops.
C1_ReadFailureEmitsDisconnected ==
    [][(/\ pc = "branch"
        /\ (rx = None \/ tx = None \/ prev_rx = None \/ prev_tx = None)
        /\ pc' # pc)
       => /\ out' = Append(out, [text    |-> "\\u2193 \\u2014   \\u2191 \\u2014",
                                 class   |-> "disconnected",
                                 tooltip |-> "iface=" \o iface.str])
          /\ pc' = "head"]_vars

\* a second cycle whose read failed has emitted its disconnected record
C1_Witness ==
    /\ pc = "head" /\ cycles = 2 /\ rx = None
    /\ Len(out) = 3 /\ out[3].class = "disconnected"
    /\ out[3].tooltip = "iface=wlan0"

\* C2: once the interface resolution has ended, it has returned a non-empty
\* name and has not raised, whatever the operating system answered.
C2_NeverRaisesNeverEmpty ==
    pc # "call" => (~ret.raised /\ ret.value # "")

\* the name the priority order of C9 picks from the inputs in arg
PriorityChoice ==
    LET words == arg.route.words
        devs  == IF arg.route = Failed THEN {}
                 ELSE {i \in 1..(Len(words) - 1) : words[i] = "dev"}
        n1    == arg.ls1.names
        ups   == IF arg.ls1 = Failed THEN {}
                 ELSE {i \in 1..Len(n1) :
                         n1[i] # "lo" /\ arg.oper[n1[i]] = PyStr("up")}
        n2    == arg.ls2.names
        any   == IF arg.ls2 = Failed THEN {}
                 ELSE {i \in 1..Len(n2) : n2[i] # "lo"}
        First(S) == CHOOSE i \in S : \A j \in S : i <= j
    IN  IF arg.arg_iface \notin {None, PyStr("")} THEN arg.arg_iface.str
        ELSE IF arg.env_iface \notin {None, PyStr("")} THEN arg.env_iface.str
        ELSE IF devs # {} THEN words[First(devs) + 1]
        ELSE IF ups # {} THEN n1[First(ups)]
        ELSE IF any # {} THEN n2[First(any)]
        ELSE "lo"

\* C9: the interface is chosen by strict priority: the explicit name, else
\* the environment name, else the routing query's device, else the first
\* enumerated non-loopback interface that is up, else the first enumerated
\* non-loopback interface, else 'lo'.
C9_PriorityOrder ==
    pc # "call" => ret = Returned(PriorityChoice)

\* C3: nothing is written before the startup placeholder; from then on the
\* output is the placeholder, a record with only 'text', followed by one
\* record per completed cycle, each with 'text', 'tooltip' and a 'class'
\* among normal, medium, high, critical, disconnected.
C3_OutputShape ==
    IF pc \in {"resolve", "read0", "emit0", "raised"}
    THEN out = <<>>
    ELSE /\ Len(out) = 1 + cycles
         /\ DOMAIN out[1] = {"text"}
         /\ out[1].text = "\\u2193 \\u2014   \\u2191 \\u2014"
         /\ \A i \in 2..Len(out) :
               /\ DOMAIN out[i] = {"text", "class", "tooltip"}
               /\ out[i].class \in
                     {"normal", "medium", "high", "critical", "disconnected"}

\* the placeholder, then a disconnected record, then a rate record
C3_Witness ==
    /\ Len(out) = 3 /\ cycles = 2
    /\ out[2].class = "disconnected"
    /\ out[3].class = "normal"
    /\ out[3].text = "\\u2193 1.00 KiB/s   \\u2191 0.00 B/s"

\* whether the larger of the two rates of the cycle exceeds n bytes/s
PeakExceeds(n) ==
    \/ FloatCmp(down_bps, FloatOfInt(n)) > 0
    \/ FloatCmp(up_bps, FloatOfInt(n)) > 0

SeverityRank(c) ==
    IF c = "normal" THEN 0
    ELSE IF c = "medium" THEN 1
    ELSE IF c = "high" THEN 2
    ELSE 3

ThresholdPeaks ==
    {-1024, 0, 102399, 102400, 102401, 1048575, 1048576, 1048577,
     10485759, 10485760, 10485761, 1073741824}

\* C4: a cycle with two successful readings emits the class its peak rate
\* selects, with exclusive boundaries: above 10*1024*1024 critical, else
\* above 1024*1024 high, else above 100*1024 medium, else normal; and the
\* class never decreases in severity when the peak increases: it is no more
\* severe than the class of any peak at or above the cycle's, and no less
\* severe than the class of any peak at or below it.
C4_SeverityThresholds ==
    (pc = "head" /\ out[2].class # "disconnected") =>
        /\ out[2].class = "critical" <=> PeakExceeds(10485760)
        /\ out[2].class = "high" <=>
              (~PeakExceeds(10485760) /\ PeakExceeds(1048576))
        /\ out[2].class = "medium" <=>
              (~PeakExceeds(1048576) /\ PeakExceeds(102400))
        /\ out[2].class = "normal" <=> ~PeakExceeds(102400)
        /\ \A n \in ThresholdPeaks :
              LET other == SeverityRank(Severity(FloatOfInt(n)))
                  mine  == SeverityRank(out[2].class)
              IN  /\ ~PeakExceeds(n) => mine <= other
                  /\ PeakExceeds(n - 1) => mine >= other

\* a peak of exactly 10*1024*1024 bytes/s has been emitted as high
C4_Witness ==
    /\ pc = "head" /\ out[2].class = "high"
    /\ FloatCmp(down_bps, FloatOfInt(10485760)) = 0
    /\ FloatCmp(up_bps, down_bps) < 0

\* C5 as stated: format(-x, si) = "-" + format(x, si) for every x >= 0.
C5_SignPreservedFromZero ==
    (pc = "returned" /\ arg.bps # None) => ret.negated = "-" \o ret.text

\* C5 amended: format(-x, si) = "-" + format(x, si) for every x > 0 and both
\* unit systems; for x = 0, format(-x, si) = format(x, si), without a sign.
C5_SignPreservedPositive ==
    (pc = "returned" /\ arg.bps # None) =>
        IF FloatIsZero(arg.bps) THEN ret.negated = ret.text
        ELSE ret.negated = "-" \o ret.text

\* a positive rate and its negation have both been formatted
C5_Witness ==
    /\ pc = "returned" /\ arg.bps # None /\ ~FloatIsZero(arg.bps)
    /\ ret.text = "1.00 KiB/s" /\ ret.negated = "-1.00 KiB/s"

\* C6: once RUNNING is cleared the cycle in flight is not aborted (the
\* handler moves nothing; sleep, read and emit complete), the loop head
\* starts no further cycle and exits, at most one record is written after
\* the flag is cleared, and the loop terminates.
C6_CooperativeStop ==
    /\ [][/\ (RUNNING /\ ~RUNNING') => (pc' = pc /\ out' = out)
          /\ ~RUNNING =>
                /\ pc = "sleep" => pc' \in {"sleep", "read"}
                /\ pc = "read" => pc' \in {"read", "branch"}
                /\ pc = "branch" => pc' \in {"branch", "format", "head"}
                /\ pc = "format" => pc' \in {"format", "head"}
                /\ pc = "head" => (pc' \in {"head", "done"} /\ out' = out)
                /\ pc = "done" => (pc' = "done" /\ out' = out)]_vars
    /\ [](~RUNNING => Len(out) <= stop_len + 1)
    /\ (~RUNNING /\ InLoop) ~> (pc = "done")

\* the loop has exited after the signal, one cycle completed
C6_Witness ==
    /\ ~RUNNING /\ pc = "done"
    /\ cycles = 2 /\ stop_len = 2 /\ Len(out) = 3

\* C7: the elapsed time a cycle divides by is strictly positive: it is
\* now - prev_time when now > prev_time and exactly 1.0 otherwise; the
\* division does not fail, and the cycle then emits a rate record, never an
\* error or a disconnected record.
C7_ElapsedPositive ==
    /\ [][(pc = "branch" /\ rx # None /\ tx # None /\ prev_rx # None
           /\ pc' # pc) => pc' = "format"]_vars
    /\ [](pc = "format" =>
            /\ FloatCmp(dt, FloatOfInt(0)) > 0
            /\ now.ticks > prev_time.ticks =>
                  FloatCmp(dt, [neg |-> FALSE,
                                num |-> BigFromNat(now.ticks - prev_time.ticks),
                                den |-> <<TicksPerSec>>]) = 0
            /\ now.ticks <= prev_time.ticks =>
                  FloatCmp(dt, FloatOfInt(1)) = 0)
    /\ [][(pc = "format" /\ pc' # pc) =>
            /\ pc' = "head"
            /\ Len(out') = Len(out) + 1
            /\ Last(out').class \in {"normal", "medium", "high", "critical"}]_vars

\* the clock reading did not advance and 1.0 has been substituted
C7_Witness ==
    /\ pc = "format" /\ now = prev_time
    /\ dt = FloatOfInt(1)

\* C8: format_speed expresses every magnitude in the unit of index k, the
\* largest k <= 4 with base^k <= magnitude (k = 0 below the base), so never
\* past TB/s or TiB/s, magnitudes of base^5 and more included.
C8_UnitSelection ==
    (pc = "returned" /\ arg.bps # None) =>
        LET base  == IF arg.si THEN 1000 ELSE 1024
            names == IF arg.si THEN <<"B/s", "KB/s", "MB/s", "GB/s", "TB/s">>
                     ELSE <<"B/s", "KiB/s", "MiB/s", "GiB/s", "TiB/s">>
            Power(k) == [neg |-> FALSE,
                         num |-> BigMulAll(<<1>>, [i \in 1..k |-> base]),
                         den |-> <<>>]
        IN  \E k \in 0..4 :
               /\ EndsWith(ret.text, " " \o names[k + 1])
               /\ k = 0 \/ FloatCmp(arg.bps, Power(k)) >= 0
               /\ k = 4 \/ FloatCmp(arg.bps, Power(k + 1)) < 0

\* a magnitude of at least 1024^5 has been expressed in TiB/s
C8_Witness ==
    /\ pc = "returned" /\ arg.bps # None /\ ~arg.si
    /\ FloatCmp(arg.bps, [neg |-> FALSE,
                          num |-> BigMulAll(<<1>>, [i \in 1..5 |-> 1024]),
                          den |-> <<>>]) >= 0
    /\ EndsWith(ret.text, " TiB/s")

\* C10: at the end of every cycle, failed or not, the retained counters and
\* timestamp are those read in that cycle; and a successful read that
\* directly follows a failed read still produces a disconnected record.
C10_WindowAdvances ==
    /\ []((pc = "head" /\ cycles > 0) =>
            (prev_rx = rx /\ prev_tx = tx /\ prev_time = now))
    /\ [][(/\ pc = "branch" /\ pc' # pc
           /\ prev_rx = None /\ rx # None /\ tx # None)
          => (pc' = "head" /\ Last(out').class = "disconnected")]_vars

\* the read after a failed read succeeded, was reported as disconnected and
\* is now the retained reading
C10_Witness ==
    /\ pc = "head" /\ cycles = 2
    /\ rx = PyInt(2024) /\ prev_rx = PyInt(2024) /\ prev_time = now
    /\ out[2].class = "disconnected" /\ out[3].class = "disconnected"

====
